---- MODULE Spec2Model ----
(***************************************************************************)
(* Model of the two-stage prompt pipeline of the Prompt Alchemy API:       *)
(* src/api/src/routers/conversation.py (conversation_endpoint,             *)
(* enhance_prompt, handle_streaming_response, stream_generator,            *)
(* handle_non_streaming_response).                                         *)
(*                                                                         *)
(* Text values are sequences of string tokens, so that formatting a        *)
(* template and building an error detail are real concatenations.          *)
(* The model invocation adapter (src.llms.litellm) is the environment: it  *)
(* returns, raises, yields a fragment or ends, chosen nondeterministically.*)
(***************************************************************************)
EXTENDS Integers, Sequences, FiniteSets, TLC

\* ------------------------------------------------------------------ bounds
NumReqs == 2
MaxServed == 2
MaxFrags == 3
MaxServedDet == 3
ConcFrags == 1

Reqs == 1..NumReqs

\* ------------------------------------------------------- values and inputs
\* Python's None, where a text or a content is absent.
None == "<None>"

\* The placeholder of a format template: '{prompt}'.
PH == "{prompt}"

\* The prompt catalog imported at conversation.py:6.  "creative" resolves in
\* both mappings; "tmplonly" has a template but no system instruction and
\* "sysonly" a system instruction but no template.
PROMPT_TEMPLATES ==
    [k \in {"creative", "tmplonly"} |->
        IF k = "creative" THEN <<"Rewrite creatively: ", PH, " (keep intent)">>
                          ELSE <<"Plain: ", PH>>]

SYSTEM_PROMPTS ==
    [k \in {"creative", "sysonly"} |->
        IF k = "creative" THEN <<"You are a creative prompt engineer">>
                          ELSE <<"You are a terse prompt engineer">>]

PromptTypes == {"creative", "tmplonly", "sysonly", "unknown_key"}
Messages == {<<"tell me more">>, <<"and then?">>}
LatestPrompts == {<<"write a poem">>, <<"fix my code">>}
Histories == {<< >>, <<[role |-> "user", content |-> "hi"]>>}

\* ConversationIn: the five fields read at conversation.py:80-84.
ConversationIn ==
    [prompt_type : PromptTypes, message : Messages, history : Histories,
     stream : BOOLEAN, latest_prompt : LatestPrompts]

NoData ==
    [prompt_type |-> None, message |-> << >>, history |-> << >>,
     stream |-> FALSE, latest_prompt |-> << >>]

\* What the adapter can answer.
EnhancedPrompts == {<<"a vivid poem prompt">>, <<"tell me more">>}
Answers == {<<"the answer">>}
AdapterErrors == {"upstream timeout", "malformed output"}
Contents == {"Hel", ""}

\* The label of both metrics (conversation.py:123).
Route == "/api/promptalchemy_conversation/conversation"
label == [api |-> Route]

\* ------------------------------------------------------------ pure helpers
\* Variant: the template is not applied, the raw prompt is passed on.
FormatSkipped(template, p) == p

\* str.format(prompt=p) on a template: every placeholder is replaced by p.
RECURSIVE Format(_, _)
Format(template, p) ==
    IF template = << >> THEN << >>
    ELSE (IF Head(template) = PH THEN p ELSE <<Head(template)>>)
         \o Format(Tail(template), p)

NoExc == [type |-> "none", arg |-> ""]
KeyError(k) == [type |-> "KeyError", arg |-> k]
AdapterError(m) == [type |-> "AdapterError", arg |-> m]

\* str(e): a KeyError prints the repr of its key, any other error its message.
Str(e) == IF e.type = "KeyError" THEN <<"'", e.arg, "'">> ELSE <<e.arg>>

\* The HTTPException raised at conversation.py:118.
HTTPException(e) ==
    [kind |-> "HTTPException", status_code |-> 500,
     detail |-> <<"An Error occurred: ">> \o Str(e), response |-> << >>]

NoResult == [kind |-> "none", status_code |-> 0, detail |-> << >>, response |-> << >>]
DictResult(answer) ==
    [kind |-> "dict", status_code |-> 200, detail |-> << >>, response |-> answer]
StreamingResponse ==
    [kind |-> "StreamingResponse", status_code |-> 200, detail |-> << >>,
     response |-> << >>]

\* The adapter calls, with exactly the keyword arguments the code passes.
EnhanceCall(prompt_type, latest_prompt) ==
    [fn |-> "generate_response_non_stream", prompt |-> latest_prompt,
     model |-> "gpt-4o-mini", system_prompt |-> SYSTEM_PROMPTS[prompt_type],
     parse |-> TRUE, prompt_type |-> prompt_type]

\* Variant: the final prompt is appended to the history as a user turn.
NonStreamCallWithTurn(final_prompt, history) ==
    [fn |-> "generate_response_non_stream", prompt |-> final_prompt,
     model |-> "gemini-flash",
     history |-> Append(history, [role |-> "user", content |-> "final"])]

NonStreamCall(final_prompt, history) ==
    [fn |-> "generate_response_non_stream", prompt |-> final_prompt,
     model |-> "gemini-flash", history |-> history]

StreamCall(final_prompt, history) ==
    [fn |-> "generate_response_stream", prompt |-> final_prompt,
     model |-> "gemini-flash", history |-> history]

\* The spans of the handler; a child span carries a link to the root span.
RootSpan == [name |-> "processors", links |-> {}]
Step1Span == [name |-> "step-1-enhance_prompt", links |-> {"processors"}]
Step2Span == [name |-> "step-2-generate_response", links |-> {"processors"}]

\* ------------------------------------------------------------------- state
VARIABLES
    pc,             \* position of each request's handler / transport
    data,           \* the request body
    formatted_latest_prompt,
    final_prompt,
    total_duration,
    exc,            \* the exception in flight inside the try block
    response,       \* what the handler returned or raised
    openSpans,      \* stack of the spans currently open, innermost last
    calls,          \* adapter calls issued for the request, in order
    replies,        \* what the adapter answered to the single-shot calls
    fragments,      \* fragments the streaming adapter has yielded
    emitted,        \* chunks stream_generator has yielded to the transport
    chunk_count,
    streamState,    \* "none", "created", "open", "ended", "error", "cancelled"
    client,         \* what the caller has received: status and body
    metrics,        \* metric writes made by the request, in order
    counter,        \* value of the request counter for the route label
    served          \* number of requests that have entered the handler

vars == <<pc, data, formatted_latest_prompt, final_prompt, total_duration,
          exc, response, openSpans, calls, replies, fragments, emitted, chunk_count,
          streamState, client, metrics, counter, served>>

\* "end" is the terminal signal the caller has seen: "none" while the
\* connection is open, "complete" for a whole JSON body, "eos" for the end of
\* a stream, "error" for a stream that broke off.
NoClient ==
    [status |-> 0, detail |-> << >>, response |-> << >>, chunks |-> << >>,
     end |-> "none"]

Init ==
    /\ pc = [r \in Reqs |-> "idle"]
    /\ data = [r \in Reqs |-> NoData]
    /\ formatted_latest_prompt = [r \in Reqs |-> << >>]
    /\ final_prompt = [r \in Reqs |-> << >>]
    /\ total_duration = [r \in Reqs |-> 0]
    /\ exc = [r \in Reqs |-> NoExc]
    /\ response = [r \in Reqs |-> NoResult]
    /\ openSpans = [r \in Reqs |-> << >>]
    /\ calls = [r \in Reqs |-> << >>]
    /\ replies = [r \in Reqs |-> << >>]
    /\ fragments = [r \in Reqs |-> << >>]
    /\ emitted = [r \in Reqs |-> << >>]
    /\ chunk_count = [r \in Reqs |-> 0]
    /\ streamState = [r \in Reqs |-> "none"]
    /\ client = [r \in Reqs |-> NoClient]
    /\ metrics = [r \in Reqs |-> << >>]
    /\ counter = 0
    /\ served = 0

\* Remove the innermost span: the exit of a 'with tracer.start_as_current_span'.
Pop(s) == SubSeq(s, 1, Len(s) - 1)

\* --------------------------------------------- the decisions the code takes
\* mapping[key] of a Python dict: the value, or a KeyError.
Lookup(mapping, key) ==
    IF key \in DOMAIN mapping
    THEN [found |-> TRUE, value |-> mapping[key]]
    ELSE [found |-> FALSE, value |-> << >>]

\* Variant: PROMPT_TEMPLATES.get(prompt_type, '{prompt}'), a default template
\* instead of a KeyError.
TemplateForOrDefault(prompt_type) ==
    IF prompt_type \in DOMAIN PROMPT_TEMPLATES
    THEN [found |-> TRUE, value |-> PROMPT_TEMPLATES[prompt_type]]
    ELSE [found |-> TRUE, value |-> <<PH>>]

\* PROMPT_TEMPLATES[prompt_type] at conversation.py:90.
TemplateFor(prompt_type) == Lookup(PROMPT_TEMPLATES, prompt_type)

\* SYSTEM_PROMPTS[prompt_type] at conversation.py:25, evaluated as an argument
\* of the adapter call, so before the call is issued.
SystemPromptFor(prompt_type) == Lookup(SYSTEM_PROMPTS, prompt_type)

\* Variant: the history test is dropped and every turn is enhanced.
EnhanceEveryTurn(history) == TRUE

\* 'if not history' at conversation.py:97.
NeedsEnhancement(history) == history = << >>

\* The prompt of the turn when enhancement is skipped (conversation.py:100).
SkippedFinalPrompt(d) == d.message

\* Variant: 'if chunk.choices[0].delta.content:', which also drops ''.
HasTruthyContent(fragment) == fragment.content # None /\ fragment.content # ""

\* 'if chunk.choices[0].delta.content is not None' at conversation.py:43.
HasContent(fragment) == fragment.content # None

\* Variant: the elapsed time is measured and recorded instead of the
\* initial value.
MeasuredWrites(duration) ==
    << [sink |-> "counter", value |-> 1, label |-> label],
       [sink |-> "histogram", value |-> duration + 1, label |-> label] >>

\* Variant: the counter is also increased on the way out of the try block,
\* and so twice per request.
CountedTwiceWrites(duration) ==
    << [sink |-> "counter", value |-> 1, label |-> label],
       [sink |-> "counter", value |-> 1, label |-> label],
       [sink |-> "histogram", value |-> duration, label |-> label] >>

\* The metric writes of the finally block (conversation.py:123-129).
FinallyWrites(duration) ==
    << [sink |-> "counter", value |-> 1, label |-> label],
       [sink |-> "histogram", value |-> duration, label |-> label] >>

\* What a sequence of metric writes adds to the request counter.
RECURSIVE CounterSum(_)
CounterSum(ws) ==
    IF ws = << >> THEN 0
    ELSE (IF Head(ws).sink = "counter" THEN Head(ws).value ELSE 0)
         + CounterSum(Tail(ws))

\* What the caller sees of an HTTPException: its status and JSON detail.
ErrorEnvelope(e) ==
    [status |-> e.status_code, detail |-> e.detail, response |-> << >>,
     chunks |-> << >>, end |-> "complete"]

\* The exception slowapi raises for a request over the limit (main.py:5).
RateLimitExceeded == [type |-> "RateLimitExceeded", arg |-> ""]

\* Variant: the handler answers 503 with the framework's default wording.
RateLimitResponseUnavailable ==
    [status |-> 503, detail |-> <<"Rate limit exceeded">>, response |-> << >>,
     chunks |-> << >>, end |-> "complete"]

\* JSONResponse(status_code=429, content={'detail': 'Rate Limited!'})
\* (main.py:40), as the caller sees it.
RateLimitResponse ==
    [status |-> 429, detail |-> <<"Rate Limited!">>, response |-> << >>,
     chunks |-> << >>, end |-> "complete"]

\* What the caller sees of a returned dict: 200 and the JSON body.
JsonBody(d) ==
    [status |-> 200, detail |-> << >>, response |-> d.response,
     chunks |-> << >>, end |-> "complete"]

\* ----------------------------------------------------------------- actions
\* A POST /conversation arrives and its body is parsed into ConversationIn.
\* Requests are served one after the other: a request arrives when no other
\* is being handled.
Arrive(r) ==
    /\ pc[r] = "idle"
    /\ \A q \in Reqs : pc[q] = "idle"
    /\ served < MaxServed
    /\ \E d \in ConversationIn : data' = [data EXCEPT ![r] = d]
    /\ pc' = [pc EXCEPT ![r] = "start"]
    /\ served' = served + 1
    /\ UNCHANGED <<formatted_latest_prompt, final_prompt, total_duration, exc,
                   response, openSpans, calls, replies, fragments, emitted,
                   chunk_count, streamState, client, metrics, counter>>

\* conversation.py:78-86: the root span opens, the fields are read,
\* total_duration is initialised.
Enter(r) ==
    /\ pc[r] = "start"
    /\ openSpans' = [openSpans EXCEPT ![r] = Append(@, RootSpan)]
    /\ total_duration' = [total_duration EXCEPT ![r] = 0]
    /\ pc' = [pc EXCEPT ![r] = "try"]
    /\ UNCHANGED <<data, formatted_latest_prompt, final_prompt, exc, response,
                   calls, replies, fragments, emitted, chunk_count, streamState,
                   client, metrics, counter, served>>

\* conversation.py:90: the template is looked up and formatted; an unknown
\* key raises KeyError inside the try block.
FormatPrompt(r) ==
    /\ pc[r] = "try"
    /\ LET t == TemplateFor(data[r].prompt_type) IN
         IF t.found
         THEN /\ formatted_latest_prompt' =
                    [formatted_latest_prompt EXCEPT
                        ![r] = Format(t.value, data[r].latest_prompt)]
              /\ pc' = [pc EXCEPT ![r] = "step1"]
              /\ exc' = exc
         ELSE /\ exc' = [exc EXCEPT ![r] = KeyError(data[r].prompt_type)]
              /\ pc' = [pc EXCEPT ![r] = "except"]
              /\ formatted_latest_prompt' = formatted_latest_prompt
    /\ UNCHANGED <<data, final_prompt, total_duration, response, openSpans,
                   calls, replies, fragments, emitted, chunk_count, streamState,
                   client, metrics, counter, served>>

\* conversation.py:93-98, 19-28: first turn, the step-1 span opens and the
\* enhancement call is issued; the handler awaits the adapter.
EnhanceIssue(r) ==
    /\ pc[r] = "step1"
    /\ NeedsEnhancement(data[r].history)
    /\ SystemPromptFor(data[r].prompt_type).found
    /\ openSpans' = [openSpans EXCEPT ![r] = Append(@, Step1Span)]
    /\ calls' = [calls EXCEPT
                    ![r] = Append(@, EnhanceCall(data[r].prompt_type,
                                                 formatted_latest_prompt[r]))]
    /\ pc' = [pc EXCEPT ![r] = "enhancing"]
    /\ UNCHANGED <<data, formatted_latest_prompt, final_prompt, total_duration,
                   exc, response, replies, fragments, emitted, chunk_count,
                   streamState, client, metrics, counter, served>>

\* conversation.py:93-98, 25: first turn, but SYSTEM_PROMPTS has no such key:
\* KeyError before any call is issued; the step-1 span opens and closes.
EnhanceKeyError(r) ==
    /\ pc[r] = "step1"
    /\ NeedsEnhancement(data[r].history)
    /\ ~SystemPromptFor(data[r].prompt_type).found
    /\ exc' = [exc EXCEPT ![r] = KeyError(data[r].prompt_type)]
    /\ pc' = [pc EXCEPT ![r] = "except"]
    /\ UNCHANGED <<data, formatted_latest_prompt, final_prompt, total_duration,
                   response, openSpans, calls, replies, fragments, emitted,
                   chunk_count, streamState, client, metrics, counter, served>>

\* conversation.py:93-100: a later turn, the message is the final prompt; the
\* step-1 span opens and closes around the assignment.
SkipEnhance(r) ==
    /\ pc[r] = "step1"
    /\ ~NeedsEnhancement(data[r].history)
    /\ final_prompt' = [final_prompt EXCEPT ![r] = SkippedFinalPrompt(data[r])]
    /\ pc' = [pc EXCEPT ![r] = "step2"]
    /\ UNCHANGED <<data, formatted_latest_prompt, total_duration, exc, response,
                   openSpans, calls, replies, fragments, emitted, chunk_count,
                   streamState, client, metrics, counter, served>>

\* conversation.py:22-29, 98: the adapter returns the parsed EnhancedPrompt,
\* its final_prompt field becomes the final prompt; the step-1 span closes.
EnhanceReturn(r) ==
    /\ pc[r] = "enhancing"
    /\ \E fp \in EnhancedPrompts :
         /\ replies' = [replies EXCEPT
                           ![r] = Append(@, [ok |-> TRUE, value |-> fp])]
         /\ final_prompt' = [final_prompt EXCEPT ![r] = fp]
    /\ openSpans' = [openSpans EXCEPT ![r] = Pop(@)]
    /\ pc' = [pc EXCEPT ![r] = "step2"]
    /\ UNCHANGED <<data, formatted_latest_prompt, total_duration, exc, response,
                   calls, fragments, emitted, chunk_count, streamState, client,
                   metrics, counter, served>>

\* Variant: a failed enhancement is swallowed and the formatted prompt is used
\* as the final prompt.
EnhanceRaiseFallback(r) ==
    /\ pc[r] = "enhancing"
    /\ \E m \in AdapterErrors :
         replies' = [replies EXCEPT
                        ![r] = Append(@, [ok |-> FALSE, value |-> <<m>>])]
    /\ final_prompt' = [final_prompt EXCEPT ![r] = formatted_latest_prompt[r]]
    /\ openSpans' = [openSpans EXCEPT ![r] = Pop(@)]
    /\ pc' = [pc EXCEPT ![r] = "step2"]
    /\ UNCHANGED <<data, formatted_latest_prompt, total_duration, exc, response,
                   calls, fragments, emitted, chunk_count, streamState, client,
                   metrics, counter, served>>

\* conversation.py:22-28, 98: the adapter raises; the exception leaves
\* enhance_prompt and the step-1 span and reaches the except clause.
EnhanceRaise(r) ==
    /\ pc[r] = "enhancing"
    /\ \E m \in AdapterErrors :
         /\ replies' = [replies EXCEPT
                           ![r] = Append(@, [ok |-> FALSE, value |-> <<m>>])]
         /\ exc' = [exc EXCEPT ![r] = AdapterError(m)]
    /\ openSpans' = [openSpans EXCEPT ![r] = Pop(@)]
    /\ pc' = [pc EXCEPT ![r] = "except"]
    /\ UNCHANGED <<data, formatted_latest_prompt, final_prompt, total_duration,
                   response, calls, fragments, emitted, chunk_count, streamState,
                   client, metrics, counter, served>>

\* Variant: handle_streaming_response issues the streaming call itself, inside
\* the handler, and hands over the open stream.
PrepareStreamEager(r) ==
    /\ pc[r] = "step2"
    /\ data[r].stream
    /\ response' = [response EXCEPT ![r] = StreamingResponse]
    /\ calls' = [calls EXCEPT
                    ![r] = Append(@, StreamCall(final_prompt[r],
                                                data[r].history))]
    /\ streamState' = [streamState EXCEPT ![r] = "open"]
    /\ pc' = [pc EXCEPT ![r] = "finally"]
    /\ UNCHANGED <<data, formatted_latest_prompt, final_prompt, total_duration,
                   exc, openSpans, replies, fragments, emitted,
                   chunk_count, client, metrics, counter, served>>

\* conversation.py:105-110, 32-48: streaming; handle_streaming_response builds
\* the StreamingResponse around the generator object without running it, so
\* no adapter call is issued here; the step-2 span opens and closes.
PrepareStream(r) ==
    /\ pc[r] = "step2"
    /\ data[r].stream
    /\ response' = [response EXCEPT ![r] = StreamingResponse]
    /\ streamState' = [streamState EXCEPT ![r] = "created"]
    /\ pc' = [pc EXCEPT ![r] = "finally"]
    /\ UNCHANGED <<data, formatted_latest_prompt, final_prompt, total_duration,
                   exc, openSpans, calls, replies, fragments, emitted,
                   chunk_count, client, metrics, counter, served>>

\* Variant: the final prompt is kept in a variable shared by all requests; the
\* generation call takes whatever any request in flight stored there.
GenerateIssueShared(r) ==
    /\ pc[r] = "step2"
    /\ ~data[r].stream
    /\ openSpans' = [openSpans EXCEPT ![r] = Append(@, Step2Span)]
    /\ \E q \in Reqs :
         /\ final_prompt[q] # << >>
         /\ calls' = [calls EXCEPT
                         ![r] = Append(@, NonStreamCall(final_prompt[q],
                                                        data[r].history))]
    /\ pc' = [pc EXCEPT ![r] = "generating"]
    /\ UNCHANGED <<data, formatted_latest_prompt, final_prompt, total_duration,
                   exc, response, replies, fragments, emitted, chunk_count,
                   streamState, client, metrics, counter, served>>

\* conversation.py:105-112, 51-57: not streaming; the step-2 span opens and the
\* single-shot generation call is issued; the handler awaits the adapter.
GenerateIssue(r) ==
    /\ pc[r] = "step2"
    /\ ~data[r].stream
    /\ openSpans' = [openSpans EXCEPT ![r] = Append(@, Step2Span)]
    /\ calls' = [calls EXCEPT
                    ![r] = Append(@, NonStreamCall(final_prompt[r],
                                                   data[r].history))]
    /\ pc' = [pc EXCEPT ![r] = "generating"]
    /\ UNCHANGED <<data, formatted_latest_prompt, final_prompt, total_duration,
                   exc, response, replies, fragments, emitted, chunk_count,
                   streamState, client, metrics, counter, served>>

\* conversation.py:53-58, 112-114: the adapter returns the completion, which is
\* wrapped as {'response': ...}; the step-2 span closes.
GenerateReturn(r) ==
    /\ pc[r] = "generating"
    /\ \E a \in Answers :
         /\ replies' = [replies EXCEPT
                           ![r] = Append(@, [ok |-> TRUE, value |-> a])]
         /\ response' = [response EXCEPT ![r] = DictResult(a)]
    /\ openSpans' = [openSpans EXCEPT ![r] = Pop(@)]
    /\ pc' = [pc EXCEPT ![r] = "finally"]
    /\ UNCHANGED <<data, formatted_latest_prompt, final_prompt, total_duration,
                   exc, calls, fragments, emitted, chunk_count, streamState,
                   client, metrics, counter, served>>

\* Variant: a failed generation is swallowed and an empty answer returned.
GenerateRaiseSwallowed(r) ==
    /\ pc[r] = "generating"
    /\ \E m \in AdapterErrors :
         replies' = [replies EXCEPT
                        ![r] = Append(@, [ok |-> FALSE, value |-> <<m>>])]
    /\ response' = [response EXCEPT ![r] = DictResult(<< >>)]
    /\ openSpans' = [openSpans EXCEPT ![r] = Pop(@)]
    /\ pc' = [pc EXCEPT ![r] = "finally"]
    /\ UNCHANGED <<data, formatted_latest_prompt, final_prompt, total_duration,
                   exc, calls, fragments, emitted, chunk_count, streamState,
                   client, metrics, counter, served>>

\* conversation.py:53-57, 112: the adapter raises; the exception leaves the
\* step-2 span and reaches the except clause.
GenerateRaise(r) ==
    /\ pc[r] = "generating"
    /\ \E m \in AdapterErrors :
         /\ replies' = [replies EXCEPT
                           ![r] = Append(@, [ok |-> FALSE, value |-> <<m>>])]
         /\ exc' = [exc EXCEPT ![r] = AdapterError(m)]
    /\ openSpans' = [openSpans EXCEPT ![r] = Pop(@)]
    /\ pc' = [pc EXCEPT ![r] = "except"]
    /\ UNCHANGED <<data, formatted_latest_prompt, final_prompt, total_duration,
                   response, calls, fragments, emitted, chunk_count, streamState,
                   client, metrics, counter, served>>

\* conversation.py:116-118: any exception of the try block is logged and
\* replaced by an HTTPException.
Except(r) ==
    /\ pc[r] = "except"
    /\ response' = [response EXCEPT ![r] = HTTPException(exc[r])]
    /\ pc' = [pc EXCEPT ![r] = "finally"]
    /\ UNCHANGED <<data, formatted_latest_prompt, final_prompt, total_duration,
                   exc, openSpans, calls, replies, fragments, emitted,
                   chunk_count, streamState, client, metrics, counter, served>>

\* conversation.py:120-129: the finally block writes the metrics; then the
\* root span closes and the handler returns or raises.
Finally(r) ==
    /\ pc[r] = "finally"
    /\ LET ws == FinallyWrites(total_duration[r]) IN
         /\ metrics' = [metrics EXCEPT ![r] = @ \o ws]
         /\ counter' = counter + CounterSum(ws)
    /\ openSpans' = [openSpans EXCEPT ![r] = Pop(@)]
    /\ pc' = [pc EXCEPT ![r] = "exit"]
    /\ UNCHANGED <<data, formatted_latest_prompt, final_prompt, total_duration,
                   exc, response, calls, replies, fragments, emitted,
                   chunk_count, streamState, client, served>>

\* conversation.py:118: the HTTPException reaches the caller as a JSON error.
SendError(r) ==
    /\ pc[r] = "exit"
    /\ response[r].kind = "HTTPException"
    /\ client' = [client EXCEPT ![r] = ErrorEnvelope(response[r])]
    /\ pc' = [pc EXCEPT ![r] = "done"]
    /\ UNCHANGED <<data, formatted_latest_prompt, final_prompt, total_duration,
                   exc, response, openSpans, calls, replies, fragments, emitted,
                   chunk_count, streamState, metrics, counter, served>>

\* Variant: the payload carries a mark once the process has counted a request
\* before this one.
SendJsonNumbered(r) ==
    /\ pc[r] = "exit"
    /\ response[r].kind = "dict"
    /\ client' = [client EXCEPT
                    ![r] = [JsonBody(response[r]) EXCEPT
                              !.response = IF counter > 1
                                           THEN Append(@, "(again)")
                                           ELSE @]]
    /\ pc' = [pc EXCEPT ![r] = "done"]
    /\ UNCHANGED <<data, formatted_latest_prompt, final_prompt, total_duration,
                   exc, response, openSpans, calls, replies, fragments, emitted,
                   chunk_count, streamState, metrics, counter, served>>

\* conversation.py:58, 114: the returned dict reaches the caller as JSON.
SendJson(r) ==
    /\ pc[r] = "exit"
    /\ response[r].kind = "dict"
    /\ client' = [client EXCEPT ![r] = JsonBody(response[r])]
    /\ pc' = [pc EXCEPT ![r] = "done"]
    /\ UNCHANGED <<data, formatted_latest_prompt, final_prompt, total_duration,
                   exc, response, openSpans, calls, replies, fragments, emitted,
                   chunk_count, streamState, metrics, counter, served>>

\* conversation.py:48, 114: the returned StreamingResponse starts: the caller
\* gets the status line before the generator is pulled.
StartStream(r) ==
    /\ pc[r] = "exit"
    /\ response[r].kind = "StreamingResponse"
    /\ client' = [client EXCEPT ![r].status = response[r].status_code]
    /\ pc' = [pc EXCEPT ![r] = "streaming"]
    /\ UNCHANGED <<data, formatted_latest_prompt, final_prompt, total_duration,
                   exc, response, openSpans, calls, replies, fragments, emitted,
                   chunk_count, streamState, metrics, counter, served>>

\* conversation.py:37-42: the first pull runs the generator body up to the
\* adapter: the streaming call is issued.
StreamOpen(r) ==
    /\ pc[r] = "streaming"
    /\ streamState[r] = "created"
    /\ chunk_count' = [chunk_count EXCEPT ![r] = 0]
    /\ calls' = [calls EXCEPT
                    ![r] = Append(@, StreamCall(final_prompt[r],
                                                data[r].history))]
    /\ streamState' = [streamState EXCEPT ![r] = "open"]
    /\ UNCHANGED <<pc, data, formatted_latest_prompt, final_prompt,
                   total_duration, exc, response, openSpans, replies, fragments,
                   emitted, client, metrics, counter, served>>

\* conversation.py:38, 43-46: the adapter yields a fragment; if its content is
\* not None it is counted and yielded to the transport, which sends it.
StreamFragment(r) ==
    /\ pc[r] = "streaming"
    /\ streamState[r] = "open"
    /\ Len(fragments[r]) < MaxFrags
    /\ \E c \in Contents \cup {None} :
         LET f == [content |-> c] IN
           /\ fragments' = [fragments EXCEPT ![r] = Append(@, f)]
           /\ IF HasContent(f)
              THEN /\ chunk_count' = [chunk_count EXCEPT ![r] = @ + 1]
                   /\ emitted' = [emitted EXCEPT ![r] = Append(@, f.content)]
                   /\ client' = [client EXCEPT
                                    ![r].chunks = Append(@, f.content)]
              ELSE UNCHANGED <<chunk_count, emitted, client>>
    /\ UNCHANGED <<pc, data, formatted_latest_prompt, final_prompt,
                   total_duration, exc, response, openSpans, calls, replies,
                   streamState, metrics, counter, served>>

\* Variant: the generator is exhausted but the response body is never
\* finished; the connection stays open without an end.
StreamEndLeftOpen(r) ==
    /\ pc[r] = "streaming"
    /\ streamState[r] = "open"
    /\ streamState' = [streamState EXCEPT ![r] = "ended"]
    /\ UNCHANGED <<pc, data, formatted_latest_prompt, final_prompt,
                   total_duration, exc, response, openSpans, calls, replies,
                   fragments, emitted, chunk_count, client, metrics, counter,
                   served>>

\* conversation.py:38: the adapter's sequence ends; the generator returns and
\* the transport closes the stream.
StreamEnd(r) ==
    /\ pc[r] = "streaming"
    /\ streamState[r] = "open"
    /\ streamState' = [streamState EXCEPT ![r] = "ended"]
    /\ client' = [client EXCEPT ![r].end = "eos"]
    /\ pc' = [pc EXCEPT ![r] = "done"]
    /\ UNCHANGED <<data, formatted_latest_prompt, final_prompt, total_duration,
                   exc, response, openSpans, calls, replies, fragments, emitted,
                   chunk_count, metrics, counter, served>>

\* Variant: a failure of the stream is counted as one more request.
StreamRaiseCounted(r) ==
    /\ pc[r] = "streaming"
    /\ streamState[r] = "open"
    /\ \E m \in AdapterErrors : exc' = [exc EXCEPT ![r] = AdapterError(m)]
    /\ streamState' = [streamState EXCEPT ![r] = "error"]
    /\ client' = [client EXCEPT ![r].end = "error"]
    /\ metrics' = [metrics EXCEPT
                      ![r] = Append(@, [sink |-> "counter", value |-> 1,
                                        label |-> label])]
    /\ counter' = counter + 1
    /\ pc' = [pc EXCEPT ![r] = "done"]
    /\ UNCHANGED <<data, formatted_latest_prompt, final_prompt, total_duration,
                   response, openSpans, calls, replies, fragments, emitted,
                   chunk_count, served>>

\* Variant: the generator catches the failure and starts the streaming call
\* again.
StreamRaiseRetry(r) ==
    /\ pc[r] = "streaming"
    /\ streamState[r] = "open"
    /\ \E m \in AdapterErrors : exc' = [exc EXCEPT ![r] = AdapterError(m)]
    /\ streamState' = [streamState EXCEPT ![r] = "created"]
    /\ UNCHANGED <<pc, data, formatted_latest_prompt, final_prompt,
                   total_duration, response, openSpans, calls, replies,
                   fragments, emitted, chunk_count, client, metrics, counter,
                   served>>

\* conversation.py:38: the adapter raises during a pull; nothing in the
\* generator catches it, so it ends the generator and breaks off the stream.
StreamRaise(r) ==
    /\ pc[r] = "streaming"
    /\ streamState[r] = "open"
    /\ \E m \in AdapterErrors : exc' = [exc EXCEPT ![r] = AdapterError(m)]
    /\ streamState' = [streamState EXCEPT ![r] = "error"]
    /\ client' = [client EXCEPT ![r].end = "error"]
    /\ pc' = [pc EXCEPT ![r] = "done"]
    /\ UNCHANGED <<data, formatted_latest_prompt, final_prompt, total_duration,
                   response, openSpans, calls, replies, fragments, emitted,
                   chunk_count, metrics, counter, served>>

\* conversation.py:48, main.py:51-54: the caller goes away while the
\* StreamingResponse is being delivered.  stream_generator itself never looks
\* at the connection; under the uvicorn server the transport cancels the task
\* that pulls the generator, so the generator is not pulled again.  What then
\* becomes of the adapter's stream is left to the runtime and is not modelled.
Disconnect(r) ==
    /\ pc[r] = "streaming"
    /\ streamState' = [streamState EXCEPT ![r] = "cancelled"]
    /\ client' = [client EXCEPT ![r].end = "disconnected"]
    /\ pc' = [pc EXCEPT ![r] = "done"]
    /\ UNCHANGED <<data, formatted_latest_prompt, final_prompt, total_duration,
                   exc, response, openSpans, calls, replies, fragments, emitted,
                   chunk_count, metrics, counter, served>>

\* main.py:25-27: the rate limiter sits in front of the router; a request over
\* the limit raises RateLimitExceeded there, before its body is parsed, and
\* never reaches the handler.
ArriveRateLimited(r) ==
    /\ pc[r] = "idle"
    /\ \A q \in Reqs : pc[q] = "idle"
    /\ served < MaxServed
    /\ exc' = [exc EXCEPT ![r] = RateLimitExceeded]
    /\ pc' = [pc EXCEPT ![r] = "limited"]
    /\ UNCHANGED <<data, formatted_latest_prompt, final_prompt, total_duration,
                   response, openSpans, calls, replies, fragments, emitted,
                   chunk_count, streamState, client, metrics, counter, served>>

\* main.py:38-40: rate_limit_exceeded_handler answers the exception.
RateLimitHandler(r) ==
    /\ pc[r] = "limited"
    /\ exc[r].type = "RateLimitExceeded"
    /\ client' = [client EXCEPT ![r] = RateLimitResponse]
    /\ pc' = [pc EXCEPT ![r] = "rejected"]
    /\ UNCHANGED <<data, formatted_latest_prompt, final_prompt, total_duration,
                   exc, response, openSpans, calls, replies, fragments, emitted,
                   chunk_count, streamState, metrics, counter, served>>

\* conversation.py:61-62: the handler keeps nothing of a finished request; its
\* locals are gone and the next POST starts from fresh ones.  The process-wide
\* counter stays.
Release(r) ==
    /\ pc[r] \in {"done", "rejected"}
    /\ pc' = [pc EXCEPT ![r] = "idle"]
    /\ data' = [data EXCEPT ![r] = NoData]
    /\ formatted_latest_prompt' = [formatted_latest_prompt EXCEPT ![r] = << >>]
    /\ final_prompt' = [final_prompt EXCEPT ![r] = << >>]
    /\ total_duration' = [total_duration EXCEPT ![r] = 0]
    /\ exc' = [exc EXCEPT ![r] = NoExc]
    /\ response' = [response EXCEPT ![r] = NoResult]
    /\ calls' = [calls EXCEPT ![r] = << >>]
    /\ replies' = [replies EXCEPT ![r] = << >>]
    /\ fragments' = [fragments EXCEPT ![r] = << >>]
    /\ emitted' = [emitted EXCEPT ![r] = << >>]
    /\ chunk_count' = [chunk_count EXCEPT ![r] = 0]
    /\ streamState' = [streamState EXCEPT ![r] = "none"]
    /\ client' = [client EXCEPT ![r] = NoClient]
    /\ metrics' = [metrics EXCEPT ![r] = << >>]
    /\ UNCHANGED <<openSpans, counter, served>>

\* The requests of the repetition experiment: not streaming, one message, one
\* latest prompt, a resolving and an unknown prompt type, both histories.
DetInputs ==
    {d \in ConversationIn :
        /\ ~d.stream
        /\ d.prompt_type \in {"creative", "unknown_key"}
        /\ d.message = <<"tell me more">>
        /\ d.latest_prompt = <<"write a poem">>}

\* conversation.py:61-62: a request arrives while no other is in progress;
\* finished requests keep their slot, so that the answers of two requests can
\* be compared.
ArriveDet(r) ==
    /\ pc[r] = "idle"
    /\ \A q \in Reqs : pc[q] \in {"idle", "done", "rejected"}
    /\ served < MaxServedDet
    /\ \E d \in DetInputs : data' = [data EXCEPT ![r] = d]
    /\ pc' = [pc EXCEPT ![r] = "start"]
    /\ served' = served + 1
    /\ UNCHANGED <<formatted_latest_prompt, final_prompt, total_duration, exc,
                   response, openSpans, calls, replies, fragments, emitted,
                   chunk_count, streamState, client, metrics, counter>>

\* The requests of the concurrency experiment: a later-turn streaming request,
\* a first-turn request that is not streamed, with another message, and a
\* request with an unknown prompt type.
ConcInputs ==
    { [prompt_type |-> "creative", message |-> <<"and then?">>,
       history |-> <<[role |-> "user", content |-> "hi"]>>, stream |-> TRUE,
       latest_prompt |-> <<"fix my code">>],
      [prompt_type |-> "creative", message |-> <<"tell me more">>,
       history |-> << >>, stream |-> FALSE,
       latest_prompt |-> <<"write a poem">>],
      [prompt_type |-> "unknown_key", message |-> <<"and then?">>,
       history |-> << >>, stream |-> FALSE,
       latest_prompt |-> <<"fix my code">>] }

\* conversation.py:61-62: a request arrives, whatever the other requests are
\* doing; each runs as a task of its own.
ArriveConc(r) ==
    /\ pc[r] = "idle"
    /\ served < MaxServed
    /\ \E d \in ConcInputs : data' = [data EXCEPT ![r] = d]
    /\ pc' = [pc EXCEPT ![r] = "start"]
    /\ served' = served + 1
    /\ UNCHANGED <<formatted_latest_prompt, final_prompt, total_duration, exc,
                   response, openSpans, calls, replies, fragments, emitted,
                   chunk_count, streamState, client, metrics, counter>>

\* conversation.py:36-46: one pull of a fragment, of a stream of at most
\* ConcFrags fragments.
StreamFragmentConc(r) ==
    /\ Len(fragments[r]) < ConcFrags
    /\ StreamFragment(r)

Next ==
    \E r \in Reqs :
        \/ Arrive(r)
        \/ Enter(r)
        \/ FormatPrompt(r)
        \/ EnhanceIssue(r)
        \/ EnhanceKeyError(r)
        \/ SkipEnhance(r)
        \/ EnhanceReturn(r)
        \/ EnhanceRaise(r)
        \/ PrepareStream(r)
        \/ GenerateIssue(r)
        \/ GenerateReturn(r)
        \/ GenerateRaise(r)
        \/ Except(r)
        \/ Finally(r)
        \/ SendError(r)
        \/ SendJson(r)
        \/ StartStream(r)
        \/ StreamOpen(r)
        \/ StreamFragment(r)
        \/ StreamEnd(r)
        \/ StreamRaise(r)
        \/ Disconnect(r)
        \/ ArriveRateLimited(r)
        \/ RateLimitHandler(r)
        \/ Release(r)

Spec == Init /\ [][Next]_vars

\* The steps of request r that the event loop and the adapter take by
\* themselves: every step of the handler and of the transport, and every
\* answer of an adapter call or pull.  Arrivals, the caller's disconnect and
\* the recycling of a finished slot are not among them.
Progress(r) ==
    \/ Enter(r)
    \/ FormatPrompt(r)
    \/ EnhanceIssue(r)
    \/ EnhanceKeyError(r)
    \/ SkipEnhance(r)
    \/ EnhanceReturn(r)
    \/ EnhanceRaise(r)
    \/ PrepareStream(r)
    \/ GenerateIssue(r)
    \/ GenerateReturn(r)
    \/ GenerateRaise(r)
    \/ Except(r)
    \/ Finally(r)
    \/ SendError(r)
    \/ SendJson(r)
    \/ StartStream(r)
    \/ StreamOpen(r)
    \/ StreamFragment(r)
    \/ StreamEnd(r)
    \/ StreamRaise(r)
    \/ RateLimitHandler(r)

\* The event loop runs every task that can run and every adapter call or pull
\* is eventually answered; a stream has at most MaxFrags fragments, so it
\* eventually ends or fails.
SpecLive == Init /\ [][Next]_vars /\ \A r \in Reqs : WF_vars(Progress(r))

\* Non-streaming requests handled one after the other, finished ones kept
\* for comparison.
NextDet ==
    \E r \in Reqs :
        \/ ArriveDet(r)
        \/ Enter(r)
        \/ FormatPrompt(r)
        \/ EnhanceIssue(r)
        \/ SkipEnhance(r)
        \/ EnhanceReturn(r)
        \/ EnhanceRaise(r)
        \/ GenerateIssue(r)
        \/ GenerateReturn(r)
        \/ GenerateRaise(r)
        \/ Except(r)
        \/ Finally(r)
        \/ SendError(r)
        \/ SendJson(r)
        \/ Release(r)

SpecDet == Init /\ [][NextDet]_vars

\* Requests handled concurrently: any request in flight may take its next
\* step, so the requests interleave at every await and every pull.
NextConc ==
    \E r \in Reqs :
        \/ ArriveConc(r)
        \/ Enter(r)
        \/ FormatPrompt(r)
        \/ EnhanceIssue(r)
        \/ EnhanceReturn(r)
        \/ EnhanceRaise(r)
        \/ SkipEnhance(r)
        \/ PrepareStream(r)
        \/ GenerateIssue(r)
        \/ GenerateReturn(r)
        \/ GenerateRaise(r)
        \/ Except(r)
        \/ Finally(r)
        \/ SendError(r)
        \/ SendJson(r)
        \/ StartStream(r)
        \/ StreamOpen(r)
        \/ StreamFragmentConc(r)
        \/ StreamEnd(r)
        \/ StreamRaise(r)
        \/ Disconnect(r)

SpecConc == Init /\ [][NextConc]_vars

\* ------------------------------------------------------------------ typing
PCs == {"idle", "limited", "rejected", "start", "try", "step1", "enhancing", "step2", "generating",
        "except", "finally", "exit", "streaming", "done"}

TypeOK ==
    /\ pc \in [Reqs -> PCs]
    /\ \A r \in Reqs :
         pc[r] \notin {"idle", "limited", "rejected"}
            => data[r] \in ConversationIn
    /\ streamState \in [Reqs -> {"none", "created", "open", "ended", "error",
                              "cancelled"}]
    /\ counter \in 0..MaxServed
    /\ served \in 0..MaxServed
    /\ \A r \in Reqs : Len(fragments[r]) <= MaxFrags

\* ------------------------------------------------------ reading the state
IsEnhancementCall(c) == c.model = "gpt-4o-mini"
IsGenerationCall(c) == c.model = "gemini-flash"
IsStreamCall(c) == c.fn = "generate_response_stream"

EnhancementCalls(r) == SelectSeq(calls[r], IsEnhancementCall)
GenerationCalls(r) == SelectSeq(calls[r], IsGenerationCall)
StreamCalls(r) == SelectSeq(calls[r], IsStreamCall)

\* Positions before step 1 has taken its branch, and those after the handler
\* has returned or raised.
BeforeStep1 == {"start", "try", "step1"}
InHandler == {"start", "try", "step1", "enhancing", "step2", "generating",
              "except", "finally"}
Exited == {"exit", "streaming", "done"}

Resolves(prompt_type) ==
    /\ prompt_type \in DOMAIN PROMPT_TEMPLATES
    /\ prompt_type \in DOMAIN SYSTEM_PROMPTS

CounterWrite == [sink |-> "counter", value |-> 1, label |-> [api |-> Route]]
IsCounterWrite(w) == w.sink = "counter"
IsHistogramWrite(w) == w.sink = "histogram"

\* ------------------------------------------------------------------ claims

\* C1: a request with empty history whose prompt_type resolves makes the
\* enhancement call exactly once, as its first call, with the catalog template
\* applied to latest_prompt as prompt and the system instruction of the
\* prompt_type; every generation call of the request gets as prompt the
\* final_prompt that the enhancement call returned.
C1_EnhanceOnceOnFirstTurn ==
    \A r \in Reqs :
        (pc[r] # "idle" /\ data[r].history = << >>
           /\ Resolves(data[r].prompt_type))
        => LET enh == EnhancementCalls(r)
               gen == GenerationCalls(r)
           IN  /\ Len(enh) = (IF pc[r] \in BeforeStep1 THEN 0 ELSE 1)
               /\ Len(enh) = 1 =>
                    /\ calls[r][1] = enh[1]
                    /\ data[r].prompt_type = "creative"
                    /\ enh[1].prompt = <<"Rewrite creatively: ">>
                                         \o data[r].latest_prompt
                                         \o <<" (keep intent)">>
                    /\ enh[1].system_prompt
                         = <<"You are a creative prompt engineer">>
               /\ \A i \in DOMAIN gen :
                    /\ Len(replies[r]) >= 1
                    /\ replies[r][1].ok
                    /\ gen[i].prompt = replies[r][1].value

\* C1 witness: a first-turn request has been enhanced and its generation call
\* has been issued with the enhanced prompt, which differs from the message.
C1_Witness ==
    \E r \in Reqs :
        /\ data[r].history = << >>
        /\ pc[r] = "done"
        /\ Len(calls[r]) = 2
        /\ calls[r][2].prompt = <<"a vivid poem prompt">>
        /\ data[r].message # calls[r][2].prompt

\* C2: a request with non-empty history never makes the enhancement call, and
\* every generation call it makes, streaming or not, gets the request's message
\* as prompt.
C2_SkipEnhanceOnLaterTurns ==
    \A r \in Reqs :
        (pc[r] # "idle" /\ data[r].history # << >>)
        => /\ EnhancementCalls(r) = << >>
           /\ \A i \in DOMAIN calls[r] :
                /\ IsGenerationCall(calls[r][i])
                /\ calls[r][i].prompt = data[r].message
           /\ pc[r] \in {"step2", "generating", "streaming"}
                => final_prompt[r] = data[r].message
           /\ (pc[r] = "done" /\ response[r].kind # "HTTPException"
                 /\ streamState[r] # "cancelled")
                => Len(calls[r]) = 1

\* C2 witness: a later-turn request has streamed to the end on its message.
C2_Witness ==
    \E r \in Reqs :
        /\ data[r].history # << >>
        /\ data[r].stream
        /\ data[r].latest_prompt # data[r].message
        /\ streamState[r] = "ended"
        /\ Len(calls[r]) = 1
        /\ Len(fragments[r]) >= 1

\* C3: every request writes the request counter once and the duration
\* histogram once, both with the route label, when it leaves the handler and on
\* every exit path; before that it has written nothing, afterwards nothing
\* more; the counter's value is the number of requests that have left the
\* handler.
C3_MetricsExactlyOnce ==
    /\ \A r \in Reqs :
         /\ pc[r] \in Exited =>
              /\ Len(SelectSeq(metrics[r], IsCounterWrite)) = 1
              /\ Len(SelectSeq(metrics[r], IsHistogramWrite)) = 1
              /\ Len(metrics[r]) = 2
              /\ \A i \in DOMAIN metrics[r] :
                   metrics[r][i].label = [api |-> Route]
              /\ CounterWrite \in {metrics[r][i] : i \in DOMAIN metrics[r]}
         /\ pc[r] \notin Exited => metrics[r] = << >>
    /\ counter = served - Cardinality({r \in Reqs : pc[r] \in InHandler})

\* C3 witness: a request that failed and a streaming request whose stream
\* broke off have each been counted once: the counter stands at two.
C3_Witness ==
    \E r \in Reqs :
        /\ pc[r] = "done"
        /\ streamState[r] = "error"
        /\ Len(metrics[r]) = 2
        /\ counter = 2

\* C4: a request whose prompt_type is not a key of PROMPT_TEMPLATES makes no
\* adapter call at all, whatever its history and stream flag, never enters
\* step 1, step 2 or streaming, leaves the handler with the error outcome, and
\* writes its one metrics record.
C4_UnknownTypeFailsFast ==
    \A r \in Reqs :
        (data[r] # NoData /\ data[r].prompt_type \notin DOMAIN PROMPT_TEMPLATES)
        => /\ calls[r] = << >>
           /\ replies[r] = << >>
           /\ fragments[r] = << >>
           /\ pc[r] \in {"start", "try", "except", "finally", "exit", "done"}
           /\ pc[r] \in {"finally", "exit", "done"}
                => response[r].kind = "HTTPException"
           /\ pc[r] \in {"exit", "done"} =>
                /\ Len(SelectSeq(metrics[r], IsCounterWrite)) = 1
                /\ Len(SelectSeq(metrics[r], IsHistogramWrite)) = 1
           /\ pc[r] = "done" => (client[r].status # 200 /\ client[r].end = "complete")

\* C4 witness: a streaming later-turn request with an unknown prompt_type has
\* been answered with the error.
C4_Witness ==
    \E r \in Reqs :
        /\ data[r].prompt_type = "unknown_key"
        /\ data[r].history # << >>
        /\ data[r].stream
        /\ pc[r] = "done"
        /\ client[r].detail = <<"An Error occurred: ", "'", "unknown_key", "'">>

\* C5 (as claimed): a request with an unknown prompt_type is answered with a
\* 4xx status, distinct from the 500 of an adapter failure.
C5_UnknownTypeIsClientError ==
    \A r \in Reqs :
        (pc[r] = "done" /\ data[r].prompt_type \notin DOMAIN PROMPT_TEMPLATES)
        => client[r].status \in 400..499

\* C6 (as claimed): a request whose prompt_type is missing from the template
\* mapping or from the system-instruction mapping makes no generation call and
\* leaves the handler with an error, with empty and with non-empty history.
C6_MissingEitherKeyFails ==
    \A r \in Reqs :
        (pc[r] # "idle" /\ ~Resolves(data[r].prompt_type))
        => /\ GenerationCalls(r) = << >>
           /\ pc[r] \in Exited => response[r].kind = "HTTPException"

\* The contents of the fragments whose content is present, in order.
RECURSIVE PresentContents(_)
PresentContents(fs) ==
    IF fs = << >> THEN << >>
    ELSE (IF Head(fs).content = None THEN << >> ELSE <<Head(fs).content>>)
         \o PresentContents(Tail(fs))

\* C7: at every moment of a stream, and so at its end, the chunks that
\* stream_generator has emitted are exactly the contents of the fragments the
\* adapter has yielded whose content is present, in the adapter's order;
\* chunk_count counts them.
C7_StreamIsPresentSubsequence ==
    \A r \in Reqs :
        /\ emitted[r] = PresentContents(fragments[r])
        /\ chunk_count[r] = Len(emitted[r])
        /\ client[r].chunks = emitted[r]

\* C7 witness: a stream ended after a content, an absent content and an empty
\* string: the two present ones were emitted, in order.
C7_Witness ==
    \E r \in Reqs :
        /\ streamState[r] = "ended"
        /\ fragments[r] = <<[content |-> "Hel"], [content |-> None],
                            [content |-> ""]>>
        /\ emitted[r] = <<"Hel", "">>

IsPrefix(s, t) == Len(s) <= Len(t) /\ SubSeq(t, 1, Len(s)) = s

\* C8: the streaming call is issued at most once per request; when the adapter
\* raises after k fragments the caller holds exactly the chunks of those k
\* fragments on a started response and sees the stream break off; chunks
\* already delivered are never taken back, and after the break no chunk is
\* added and no call is issued.
C8_PartialStreamKept ==
    /\ [](\A r \in Reqs :
            /\ Len(StreamCalls(r)) <= 1
            /\ streamState[r] = "error" =>
                 /\ client[r].chunks = PresentContents(fragments[r])
                 /\ client[r].status = 200
                 /\ client[r].end = "error"
                 /\ Len(StreamCalls(r)) = 1)
    /\ [][\A r \in Reqs :
            /\ (pc[r] = "streaming" /\ pc'[r] # "idle")
                 => IsPrefix(client[r].chunks, client'[r].chunks)
            /\ (streamState[r] = "error" /\ pc'[r] # "idle")
                 => /\ client'[r] = client[r]
                    /\ emitted'[r] = emitted[r]
                    /\ fragments'[r] = fragments[r]
                    /\ calls'[r] = calls[r]]_vars

\* C8 witness: the adapter raised after two fragments, both delivered.
C8_Witness ==
    \E r \in Reqs :
        /\ streamState[r] = "error"
        /\ Len(fragments[r]) = 2
        /\ client[r].chunks = <<"Hel", "Hel">>
        /\ client[r].end = "error"

\* C9: when the enhancement call raises, it stays the request's only adapter
\* call (no retry, no generation), no final prompt is set, the handler leaves
\* with HTTPException 500 and the caller gets status 500 with detail
\* 'An Error occurred: ' followed by the adapter's message.
C9_EnhanceFailureIsServerError ==
    \A r \in Reqs :
        (calls[r] # << >> /\ IsEnhancementCall(calls[r][1])
           /\ replies[r] # << >> /\ ~replies[r][1].ok)
        => /\ Len(calls[r]) = 1
           /\ Len(replies[r]) = 1
           /\ final_prompt[r] = << >>
           /\ pc[r] \in {"except", "finally", "exit", "done"}
           /\ pc[r] \in {"finally", "exit", "done"} =>
                /\ response[r].kind = "HTTPException"
                /\ response[r].status_code = 500
           /\ pc[r] = "done" =>
                /\ client[r].status = 500
                /\ client[r].detail
                     = <<"An Error occurred: ">> \o replies[r][1].value
                /\ client[r].end = "complete"

\* C9 witness: the caller of a streaming first-turn request got the 500 with
\* the adapter's message.
C9_Witness ==
    \E r \in Reqs :
        /\ pc[r] = "done"
        /\ data[r].stream
        /\ Len(calls[r]) = 1
        /\ IsEnhancementCall(calls[r][1])
        /\ client[r].status = 500
        /\ client[r].detail = <<"An Error occurred: ", "upstream timeout">>

\* C10: when the single-shot generation call raises, the handler leaves with
\* HTTPException 500 and the caller gets the 500 envelope with the adapter's
\* message; the streaming call is only ever issued after the handler has
\* returned a StreamingResponse and the caller has status 200, so when it
\* raises the handler's outcome stays the StreamingResponse and the caller
\* sees only the stream break off, with no error envelope.
C10_GenerationFailureByMode ==
    \A r \in Reqs :
        /\ (calls[r] # << >> /\ ~IsEnhancementCall(calls[r][Len(calls[r])])
              /\ ~IsStreamCall(calls[r][Len(calls[r])])
              /\ Len(replies[r]) = Len(calls[r])
              /\ ~replies[r][Len(replies[r])].ok)
           => /\ pc[r] \in {"except", "finally", "exit", "done"}
              /\ pc[r] \in {"finally", "exit", "done"} =>
                   /\ response[r].kind = "HTTPException"
                   /\ response[r].status_code = 500
              /\ pc[r] = "done" =>
                   /\ client[r].status = 500
                   /\ client[r].detail = <<"An Error occurred: ">>
                                           \o replies[r][Len(replies[r])].value
        /\ StreamCalls(r) # << >> =>
              /\ pc[r] \in {"streaming", "done"}
              /\ response[r].kind = "StreamingResponse"
              /\ client[r].status = 200
        /\ streamState[r] = "error" =>
              /\ response[r].kind = "StreamingResponse"
              /\ exc[r].type = "AdapterError"
              /\ client[r].status = 200
              /\ client[r].detail = << >>
              /\ client[r].end = "error"

\* C10 witness: the streaming adapter raised on the first pull of a request
\* that had been enhanced: status 200, nothing delivered, stream broken off.
C10_Witness ==
    \E r \in Reqs :
        /\ streamState[r] = "error"
        /\ fragments[r] = << >>
        /\ Len(calls[r]) = 2
        /\ client[r].status = 200

\* C12: with every adapter call and pull eventually answered, every request
\* that has arrived eventually gets a terminal signal: a complete JSON payload,
\* a JSON error envelope, a stream that has reached its end or a terminal
\* error (or that the caller itself has left), or the 429 answer.
C12_EventuallyTerminal ==
    \A r \in Reqs :
        (pc[r] \in {"start", "limited"})
          ~> (pc[r] \in {"done", "rejected"} /\ client[r].end # "none")

\* C12 witness: a stream that delivered two chunks reached end-of-stream.
C12_Witness ==
    \E r \in Reqs :
        /\ pc[r] = "done"
        /\ streamState[r] = "ended"
        /\ client[r].end = "eos"
        /\ Len(client[r].chunks) = 2

\* The adapter answered as a deterministic one would for requests p and q:
\* wherever the two made the same call, they got the same answer.
DeterministicFor(p, q) ==
    \A i \in DOMAIN replies[p] : \A j \in DOMAIN replies[q] :
        calls[p][i] = calls[q][j] => replies[p][i] = replies[q][j]

\* C13: two finished non-streaming requests with the same fields, answered by
\* a deterministic adapter, were sent the same payload (status, detail and
\* response), whatever was handled before or between them.
C13_RepeatGivesSamePayload ==
    \A p \in Reqs : \A q \in Reqs :
        ( /\ p # q
          /\ pc[p] = "done"
          /\ pc[q] = "done"
          /\ data[p] = data[q]
          /\ ~data[p].stream
          /\ DeterministicFor(p, q) )
        => /\ client[p] = client[q]
           /\ calls[p] = calls[q]

\* C13 witness: two equal first-turn requests were both enhanced and answered
\* with the same 200 payload, and a third request was handled as well.
C13_Witness ==
    \E p \in Reqs : \E q \in Reqs :
        /\ p # q
        /\ pc[p] = "done"
        /\ pc[q] = "done"
        /\ data[p] = data[q]
        /\ ~data[p].stream
        /\ Len(calls[p]) = 2
        /\ DeterministicFor(p, q)
        /\ client[p].status = 200
        /\ client[p] = client[q]
        /\ served = 3

\* C14: a request over the rate limit is answered 429 with detail
\* 'Rate Limited!' and nothing of the pipeline runs for it: no span, no
\* template lookup, no adapter call, no metrics write; and only such a request
\* is answered 429.
C14_RateLimitedBypassesPipeline ==
    \A r \in Reqs :
        /\ exc[r].type = "RateLimitExceeded" =>
             /\ pc[r] \in {"limited", "rejected"}
             /\ openSpans[r] = << >>
             /\ formatted_latest_prompt[r] = << >>
             /\ final_prompt[r] = << >>
             /\ calls[r] = << >>
             /\ metrics[r] = << >>
             /\ response[r] = NoResult
             /\ pc[r] = "rejected" =>
                  /\ client[r].status = 429
                  /\ client[r].detail = <<"Rate Limited!">>
                  /\ client[r].end = "complete"
        /\ client[r].status = 429 => exc[r].type = "RateLimitExceeded"

\* C14 witness: after one request was handled, a second one was rejected with
\* 429; the counter still stands at one.
C14_Witness ==
    \E r \in Reqs :
        /\ pc[r] = "rejected"
        /\ client[r].status = 429
        /\ counter = 1

C16_CallsInsideStageSpans ==
    \A r \in Reqs :
        /\ pc[r] = "enhancing" => openSpans[r] = <<RootSpan, Step1Span>>
        /\ pc[r] = "generating" => openSpans[r] = <<RootSpan, Step2Span>>
        /\ streamState[r] = "open" => openSpans[r] = <<RootSpan, Step2Span>>
        /\ \A i \in DOMAIN openSpans[r] :
             i > 1 => openSpans[r][i].links = {"processors"}
        /\ (pc[r] \in Exited /\ streamState[r] # "open")
             => openSpans[r] = << >>

\* Everything the handler holds for request r.
PerRequest(r) ==
    <<pc[r], data[r], formatted_latest_prompt[r], final_prompt[r],
      total_duration[r], exc[r], response[r], openSpans[r], calls[r],
      replies[r], fragments[r], emitted[r], chunk_count[r], streamState[r],
      client[r], metrics[r]>>

\* The final prompt, the calls and the response of request r are what its own
\* fields and the answers to its own calls make them.
OwnFieldsOnly(r) ==
    /\ formatted_latest_prompt[r] # << >> =>
          formatted_latest_prompt[r]
            = Format(PROMPT_TEMPLATES[data[r].prompt_type],
                     data[r].latest_prompt)
    /\ final_prompt[r] # << >> =>
          final_prompt[r] = IF data[r].history = << >>
                            THEN replies[r][1].value
                            ELSE data[r].message
    /\ \A i \in DOMAIN calls[r] :
          calls[r][i] =
            IF IsEnhancementCall(calls[r][i])
            THEN EnhanceCall(data[r].prompt_type, formatted_latest_prompt[r])
            ELSE IF data[r].stream
                 THEN StreamCall(final_prompt[r], data[r].history)
                 ELSE NonStreamCall(final_prompt[r], data[r].history)
    /\ response[r].kind = "dict" =>
          response[r] = DictResult(replies[r][Len(replies[r])].value)
    /\ response[r].kind = "HTTPException" =>
          response[r] = HTTPException(exc[r])
    /\ (pc[r] = "done" /\ response[r].kind = "dict") =>
          client[r] = JsonBody(response[r])
    /\ (pc[r] = "done" /\ response[r].kind = "HTTPException") =>
          client[r] = ErrorEnvelope(response[r])
    /\ response[r].kind = "StreamingResponse" =>
          client[r].chunks = PresentContents(fragments[r])

\* C17: with requests interleaved at every await and every pull, the final
\* prompt, the calls and the response of each request are made of its own
\* fields and the answers to its own calls; a step of one request leaves
\* everything held for the others as it was; the counter is the number of
\* requests that left the handler, and once all have finished it is the
\* number of requests.
C17_RequestsIndependent ==
    /\ [](\A r \in Reqs : OwnFieldsOnly(r))
    /\ [](counter = Cardinality({r \in Reqs : pc[r] \in Exited}))
    /\ []((\A r \in Reqs : pc[r] \in {"idle", "done"}) => counter = served)
    /\ [][\E r \in Reqs :
            \A q \in Reqs \ {r} : PerRequest(q)' = PerRequest(q)]_vars

\* C17 witness: a streaming request has left the handler, has been counted and
\* has a fragment pulled, while another request, enhanced in the meantime,
\* waits for the answer to its generation call.
C17_Witness ==
    \E p \in Reqs : \E q \in Reqs :
        /\ pc[p] = "streaming"
        /\ Len(fragments[p]) = 1
        /\ calls[p][1].prompt = <<"and then?">>
        /\ pc[q] = "generating"
        /\ Len(calls[q]) = 2
        /\ calls[q][2].prompt = <<"a vivid poem prompt">>
        /\ counter = 1

\* C18: total_duration is 0 throughout and the one histogram write of a
\* request records 0, on every exit path.
C18_DurationIsZero ==
    \A r \in Reqs :
        /\ total_duration[r] = 0
        /\ \A i \in DOMAIN metrics[r] :
             metrics[r][i].sink = "histogram" => metrics[r][i].value = 0
        /\ pc[r] \in Exited =>
             \E i \in DOMAIN metrics[r] :
                 /\ metrics[r][i].sink = "histogram"
                 /\ metrics[r][i].value = 0

\* C18 witness: a request that failed in generation has recorded duration 0.
C18_Witness ==
    \E r \in Reqs :
        /\ pc[r] = "done"
        /\ response[r].kind = "HTTPException"
        /\ Len(calls[r]) = 2
        /\ metrics[r][2] = [sink |-> "histogram", value |-> 0,
                            label |-> [api |-> Route]]

\* C19: streaming, the handler returns with no streaming call issued and no
\* fragment pulled; when the call is issued or a fragment has arrived the
\* request's two metric writes are made and all its spans are closed; and no
\* step of the streaming phase, be it a fragment, the end, a failure or a
\* disconnect, changes the request's metric writes or spans.
C19_MetricsBeforeFirstPull ==
    /\ [](\A r \in Reqs :
            /\ (response[r].kind = "StreamingResponse"
                  /\ pc[r] \in {"finally", "exit"})
                 => (StreamCalls(r) = << >> /\ fragments[r] = << >>)
            /\ (StreamCalls(r) # << >> \/ fragments[r] # << >>
                  \/ streamState[r] \in {"open", "ended", "error", "cancelled"})
                 => /\ pc[r] \in {"streaming", "done"}
                    /\ Len(metrics[r]) = 2
                    /\ openSpans[r] = << >>)
    /\ [][\A r \in Reqs :
            (pc[r] = "streaming" /\ pc'[r] # "idle")
              => /\ metrics'[r] = metrics[r]
                 /\ openSpans'[r] = openSpans[r]]_vars

\* C19 witness: the caller went away after two fragments; the request's
\* metrics are the two writes of the handler.
C19_Witness ==
    \E r \in Reqs :
        /\ streamState[r] = "cancelled"
        /\ Len(fragments[r]) = 2
        /\ Len(metrics[r]) = 2
        /\ counter = 1

\* C20: every generation call, single shot or streaming, carries exactly the
\* request's history and no system_prompt; the enhancement call carries the
\* system instruction and no history; the request body, its history included,
\* never changes while the request is handled.
C20_HistoryUntouched ==
    /\ [](\A r \in Reqs : \A i \in DOMAIN calls[r] :
            IF IsEnhancementCall(calls[r][i])
            THEN /\ "history" \notin DOMAIN calls[r][i]
                 /\ "system_prompt" \in DOMAIN calls[r][i]
                 /\ calls[r][i].system_prompt
                      = <<"You are a creative prompt engineer">>
            ELSE /\ "system_prompt" \notin DOMAIN calls[r][i]
                 /\ "history" \in DOMAIN calls[r][i]
                 /\ calls[r][i].history = data[r].history)
    /\ [][\A r \in Reqs :
            (data[r] # NoData /\ pc'[r] # "idle") => data'[r] = data[r]]_vars

\* C20 witness: a first-turn request was enhanced and its single-shot
\* generation call went out with the history still empty.
C20_Witness ==
    \E r \in Reqs :
        /\ pc[r] = "done"
        /\ ~data[r].stream
        /\ Len(calls[r]) = 2
        /\ calls[r][2].history = << >>
        /\ calls[r][2].prompt = <<"a vivid poem prompt">>

====
